---- MODULE Spec2Model ----
(***************************************************************************)
(* State-machine model of the identity-resolution and conversation-indexing *)
(* core of sms-email-to-chat: LineToken triples, SmsMessage.GetSender /      *)
(* GetReceiver, the Users registry, the Interactions index and the           *)
(* SmsToChat indexing passes.                                                *)
(*                                                                           *)
(* Python values: None is the empty tuple, a string or phone number v is     *)
(* the one-element tuple <<v>>, so that the string "None" and the value      *)
(* None stay different values that render to the same text.                  *)
(***************************************************************************)
EXTENDS Integers, Sequences, FiniteSets, TLC

VARIABLES
  usermap,        \* Interactions._usermap: rendered key string -> interaction id
  uuids,          \* number of uuid.uuid4() values drawn so far
  minted,         \* history: unordered pair of identities -> id drawn by its first Update
  igot,           \* outcome of the last Interactions.Get call
  heap,           \* the User objects the registry holds, by object id
  users,          \* Users._users: list of object ids
  partial_users,  \* Users._partial_users: list of object ids
  ucall,          \* the last registry call and its outcome
  uhist,          \* history of the registry calls: fragments fed, calls made, passes run
  mail,           \* the SmsMessage under attribution
  attributed,     \* outcome of the last GetSender / GetReceiver call
  smss,           \* SmsToChat.smss: the loaded messages, uuid attached by _IndexUsers
  convos,         \* SmsToChat.convos: uuid -> thread -> list of Message
  pc,             \* position of the SmsToChat run
  cursor,         \* index of the next message of the running loop
  failure,        \* the exception that ended the run, or None
  oplog,          \* history: the registry and index calls the run has made, in order
  raw_email,      \* the maildir message SmsMessage is constructed from
  loaded          \* outcome of the SmsMessage construction

vars == <<usermap, uuids, minted, igot, heap, users, partial_users, ucall, uhist,
          mail, attributed, smss, convos, pc, cursor, failure, oplog,
          raw_email, loaded>>

interactionVars == <<usermap, uuids, minted, igot>>
registryVars == <<heap, users, partial_users, ucall, uhist>>
attributionVars == <<mail, attributed>>
indexerVars == <<smss, convos, pc, cursor, failure, oplog>>
loadVars == <<raw_email, loaded>>

\* ---------------------------------------------------------------- values

None == <<>>

Some(v) == <<v>>

\* Python truthiness of an optional string: None and '' are false.
Truthy(f) == f # None /\ f[1] # ""

\* '%s' of an optional string field.
FieldStr(f) == IF f = None THEN "None" ELSE f[1]

\* '%s' of an optional phonenumbers.PhoneNumber (a US number, by its national number).
PhoneStr(p) == IF p = None THEN "None" ELSE "Country Code: 1 National Number: " \o p[1]

User(phone, name, email) == [phone |-> phone, name |-> name, email |-> email]

\* User.__str__
UserStr(u) ==
  "(" \o PhoneStr(u.phone) \o ", " \o FieldStr(u.name) \o ", " \o FieldStr(u.email) \o ")"

\* ---------------------------------------------------------------- Interactions

\* dict.setdefault(key, value)
SetDefault(map, key, value) ==
  IF key \in DOMAIN map THEN map ELSE map @@ (key :> value)

\* '%s%s' % (user1, user2)
InteractionKey(user1, user2) == UserStr(user1) \o UserStr(user2)

\* Interactions.Update without its second setdefault: the id is stored under the
\* order of the call alone.
InteractionsUpdateOneWay(map, user1, user2, interaction_id) ==
  SetDefault(map, InteractionKey(user1, user2), interaction_id)

\* Interactions.Update on a _usermap, with interaction_id the uuid just drawn.
InteractionsUpdate(map, user1, user2, interaction_id) ==
  SetDefault(SetDefault(map, InteractionKey(user1, user2), interaction_id),
             InteractionKey(user2, user1), interaction_id)

KeyError == 0

\* Interactions.Get on a _usermap: the id (1, 2, ...), or KeyError.
InteractionsGet(map, user1, user2) ==
  IF InteractionKey(user1, user2) \in DOMAIN map
  THEN map[InteractionKey(user1, user2)]
  ELSE KeyError

\* ---------------------------------------------------------------- Users

NoError == None

\* Error('User has two <field>s! ...')
ConflictError(field) == Some(field)

\* the name Users._UpdateName works with: 'null' is taken as None
NullToNone(name) == IF name = Some("null") THEN None ELSE name

\* Users._UpdateName whose elif lacks "and user.name != name": a second name
\* raises even when it is the name the user has.
UpdateNameRejectsEqual(user, name) ==
  LET n == NullToNone(name) IN
  IF user.name = None /\ Truthy(n)
  THEN [user |-> [user EXCEPT !.name = n], err |-> NoError]
  ELSE IF Truthy(user.name) /\ Truthy(n)
  THEN [user |-> user, err |-> ConflictError("name")]
  ELSE [user |-> user, err |-> NoError]

\* Users._UpdateName without "if name == 'null': name = None".
UpdateNameKeepsNull(user, name) ==
  IF user.name = None /\ Truthy(name)
  THEN [user |-> [user EXCEPT !.name = name], err |-> NoError]
  ELSE IF Truthy(user.name) /\ Truthy(name) /\ user.name # name
  THEN [user |-> user, err |-> ConflictError("name")]
  ELSE [user |-> user, err |-> NoError]

\* Users._UpdateName that assigns whenever a name comes in, whatever the user has.
UpdateNameOverwrites(user, name) ==
  LET n == NullToNone(name) IN
  IF Truthy(n)
  THEN [user |-> [user EXCEPT !.name = n], err |-> NoError]
  ELSE [user |-> user, err |-> NoError]

\* Users._UpdateName on a User value: the updated User and the error raised, if any.
UpdateName(user, name) ==
  LET n == NullToNone(name) IN
  IF user.name = None /\ Truthy(n)
  THEN [user |-> [user EXCEPT !.name = n], err |-> NoError]
  ELSE IF Truthy(user.name) /\ Truthy(n) /\ user.name # n
  THEN [user |-> user, err |-> ConflictError("name")]
  ELSE [user |-> user, err |-> NoError]

\* Users._UpdateEmail without its elif branch: a second email is dropped, not raised.
UpdateEmailKeepsFirst(user, email) ==
  IF user.email = None /\ Truthy(email)
  THEN [user |-> [user EXCEPT !.email = email], err |-> NoError]
  ELSE [user |-> user, err |-> NoError]

\* Users._UpdateEmail on a User value.
UpdateEmail(user, email) ==
  IF user.email = None /\ Truthy(email)
  THEN [user |-> [user EXCEPT !.email = email], err |-> NoError]
  ELSE IF Truthy(user.email) /\ Truthy(email) /\ user.email # email
  THEN [user |-> user, err |-> ConflictError("email")]
  ELSE [user |-> user, err |-> NoError]

\* Users._UpdatePhone on a User value (a PhoneNumber object is always true).
UpdatePhone(user, phone) ==
  IF user.phone = None /\ phone # None
  THEN [user |-> [user EXCEPT !.phone = phone], err |-> NoError]
  ELSE IF user.phone # None /\ phone # None /\ user.phone # phone
  THEN [user |-> user, err |-> ConflictError("phone")]
  ELSE [user |-> user, err |-> NoError]

\* The statement pair in the other order: "_UpdateEmail(user, email);
\* _UpdateName(user, name)".
EmailThenName(user, name, email) ==
  LET r == UpdateEmail(user, email) IN
  IF r.err # NoError THEN r ELSE UpdateName(r.user, name)

\* The statement pair "_UpdateName(user, name); _UpdateEmail(user, email)":
\* the second call runs only when the first did not raise.
NameThenEmail(user, name, email) ==
  LET r == UpdateName(user, name) IN
  IF r.err # NoError THEN r ELSE UpdateEmail(r.user, email)

\* "_UpdatePhone(user, phone); _UpdateName(user, name)"
PhoneThenName(user, phone, name) ==
  LET r == UpdatePhone(user, phone) IN
  IF r.err # NoError THEN r ELSE UpdateName(r.user, name)

\* "_UpdatePhone(user, phone); _UpdateEmail(user, email)"
PhoneThenEmail(user, phone, email) ==
  LET r == UpdatePhone(user, phone) IN
  IF r.err # NoError THEN r ELSE UpdateEmail(r.user, email)

\* raise Error('Non-duplicate <field> detected: ...') of User.Update
NonDuplicateError(field) == Some("Non-duplicate " \o field \o " detected")

\* One "if <field>:" block of User.Update: a value that is true is stored when
\* the field is None, and raises when the field holds another value; a phone
\* number is always true, a string when it is not ''.
UserUpdateField(user, field, value) ==
  IF ~(IF field = "phone" THEN value # None ELSE Truthy(value))
  THEN [user |-> user, err |-> NoError]
  ELSE IF user[field] # value /\ user[field] = None
  THEN [user |-> [user EXCEPT ![field] = value], err |-> NoError]
  ELSE IF user[field] # value /\ user[field] # None
  THEN [user |-> user, err |-> NonDuplicateError(field)]
  ELSE [user |-> user, err |-> NoError]

\* User.Update(phone, name, email) on a User value: the three blocks in order,
\* the first raise ending the call with the fields written so far.
UserUpdate(user, phone, name, email) ==
  LET r1 == UserUpdateField(user, "phone", phone) IN
  IF r1.err # NoError THEN r1
  ELSE LET r2 == UserUpdateField(r1.user, "name", name) IN
       IF r2.err # NoError THEN r2
       ELSE UserUpdateField(r2.user, "email", email)

\* A registry: the User objects, and the two lists of object ids.
Registry(h, us, ps) == [heap |-> h, users |-> us, partial_users |-> ps]

EmptyRegistry == Registry(<<>>, <<>>, <<>>)

Outcome(reg, err) == [reg |-> reg, err |-> err]

\* The loop that finds no partial user equal to new_user, whatever the list holds.
KnownPartialNever(reg, new_user, i) == FALSE

\* the loop "for user in self._partial_users" of Users.Update, from position i
RECURSIVE KnownPartial(_, _, _)
KnownPartial(reg, new_user, i) ==
  IF i > Len(reg.partial_users) THEN FALSE
  ELSE LET user == reg.heap[reg.partial_users[i]] IN
       IF /\ user.phone = new_user.phone
          /\ user.name = new_user.name
          /\ user.email = new_user.email
       THEN TRUE
       ELSE KnownPartial(reg, new_user, i + 1)

\* The loop that finds no user with new_user's phone, whatever the list holds.
PhoneMatchNever(reg, new_user, i) == 0

\* the loop "for user in self._users" of Users.Update, from position i:
\* the position of the first user with new_user's phone, or 0
RECURSIVE PhoneMatch(_, _, _)
PhoneMatch(reg, new_user, i) ==
  IF i > Len(reg.users) THEN 0
  ELSE LET user == reg.heap[reg.users[i]] IN
       IF user.phone = new_user.phone /\ user.phone # None
       THEN i
       ELSE PhoneMatch(reg, new_user, i + 1)

\* Users.Update(new_user), new_user a User object not yet held by the registry
UsersUpdate(reg, new_user) ==
  LET fresh == Len(reg.heap) + 1 IN
  IF new_user.phone = None
  THEN IF KnownPartial(reg, new_user, 1)
       THEN Outcome(reg, NoError)
       ELSE Outcome(Registry(Append(reg.heap, new_user), reg.users,
                             Append(reg.partial_users, fresh)), NoError)
  ELSE LET i == PhoneMatch(reg, new_user, 1) IN
       IF i = 0
       THEN Outcome(Registry(Append(reg.heap, new_user), Append(reg.users, fresh),
                             reg.partial_users), NoError)
       ELSE LET id == reg.users[i]
                r == NameThenEmail(reg.heap[id], new_user.name, new_user.email)
            IN Outcome(Registry([reg.heap EXCEPT ![id] = r.user], reg.users,
                                reg.partial_users), r.err)

\* One pass of the body of "for user in self._users" in ProcessPartialUsers, for
\* the user at position j and the partial user object pid, on heap h. Every branch
\* ends in "continue", so the loop goes on to the next user.
MergePartial(h, id, pid) ==
  LET user == h[id]
      partial_user == h[pid]
  IN IF user.phone = partial_user.phone /\ user.phone # None
     THEN NameThenEmail(user, partial_user.name, partial_user.email)
     ELSE IF user.email = partial_user.email /\ user.email # None
     THEN PhoneThenName(user, partial_user.phone, partial_user.name)
     ELSE IF user.name = partial_user.name /\ user.name # None
     THEN PhoneThenEmail(user, partial_user.phone, partial_user.email)
     ELSE [user |-> user, err |-> NoError]

\* the inner loop "for user in self._users" over the list us, from position j
RECURSIVE ScanUsers(_, _, _, _)
ScanUsers(h, us, pid, j) ==
  IF j > Len(us) THEN [heap |-> h, err |-> NoError]
  ELSE LET r == MergePartial(h, us[j], pid)
           h2 == [h EXCEPT ![us[j]] = r.user]
       IN IF r.err # NoError
          THEN [heap |-> h2, err |-> r.err]
          ELSE ScanUsers(h2, us, pid, j + 1)

\* the outer loop "for partial_user in self._partial_users", from position i:
\* after the scan of the users the partial user is appended to self._users
RECURSIVE ScanPartials(_, _)
ScanPartials(reg, i) ==
  IF i > Len(reg.partial_users)
  THEN Outcome(Registry(reg.heap, reg.users, <<>>), NoError)
  ELSE LET pid == reg.partial_users[i]
           r == ScanUsers(reg.heap, reg.users, pid, 1)
       IN IF r.err # NoError
          THEN Outcome(Registry(r.heap, reg.users, reg.partial_users), r.err)
          ELSE ScanPartials(Registry(r.heap, Append(reg.users, pid),
                                     reg.partial_users), i + 1)

\* Users.ProcessPartialUsers()
ProcessPartialUsers(reg) == ScanPartials(reg, 1)

\* The field test ProcessPartialUsers and Update match users by:
\* "user.<field> == other.<field> and user.<field> is not None".
FieldMatch(a, b) == a = b /\ a # None

\* No User object: the value of a name that was never assigned.
NotFound == 0

\* "self.users.Find": class Users defines __init__, _UpdateName, _UpdateEmail,
\* _UpdatePhone, ProcessPartialUsers and Update and no Find, so the attribute
\* lookup raises AttributeError.
FindAttributeError == "'Users' object has no attribute 'Find'"

\* ---------------------------------------------------------------- SmsMessage

\* What LineToken._ParsePhoneNameEmail can return: a phone alone, a name alone,
\* an email alone, or the name and email of '"Real Name" <email>'.
LineToken(phone, name, email) == [phone |-> phone, name |-> name, email |-> email]

\* raise TypeError('SMS Type is not supported: ...')
UnsupportedType == "SMS Type is not supported"

\* raise TypeError('Multiple non-duplicate user information: ...')
MultipleInformation == "Multiple non-duplicate user information"

\* A PhoneNumber object: the one phonenumbers.parse made for the header at this
\* position of the list the set is built from.
PhoneObject(header, number) == [header |-> header, number |-> number]

\* "set([<token>.phone, <token>.phone, <token>.phone])": PhoneNumber defines
\* __eq__ and no __hash__, so the set hashes the objects by identity and keeps
\* one entry per header that parsed to a phone, equal numbers included; the None
\* of the other headers is one entry.
PhoneSet(tokens) ==
  {PhoneObject(i, tokens[i].phone) : i \in {k \in DOMAIN tokens : tokens[k].phone # None}}
    \cup (IF \E k \in DOMAIN tokens : tokens[k].phone = None THEN {None} ELSE {})

\* "set([<token>.name, ...])" and "set([<token>.email, ...])": strings, kept by value.
FieldSet(tokens, field) == {tokens[i][field] : i \in DOMAIN tokens}

\* The loop "for x in phone_set: if x is not None and x != '' and
\* x != authoritative.phone: phones.append(x)", as the set of objects appended;
\* "!=" compares the numbers, and no PhoneNumber equals ''.
CorroboratingPhones(phone_set, authoritative_phone) ==
  {x \in phone_set : x # None /\ x.number # authoritative_phone}

\* The loops "for x in <field>_set: if x is not None and x != '' and
\* x != authoritative.<field>: <field>s.append(x)" for names and emails, as the
\* set of values appended.
Corroborating(field_set, authoritative_field) ==
  {x \in field_set : x # None /\ x # Some("") /\ x # authoritative_field}

\* The numbers of the phone objects appended.
Numbers(phones) == {x.number : x \in phones}

\* The choice with its test left out: the authoritative field is returned as it is.
AdoptNothing(authoritative_field, values, is_phone) == authoritative_field

\* The choice with its test turned round: a corroborating value wins when there is one.
AdoptCorroborating(authoritative_field, values, is_phone) ==
  IF values # {} THEN CHOOSE x \in values : TRUE ELSE authoritative_field

\* "if not authoritative.<field> and len(<field>s) > 0: <field>s[0]
\*  else: authoritative.<field>", reached only with at most one value appended
Adopt(authoritative_field, values, is_phone) ==
  IF (IF is_phone THEN authoritative_field = None ELSE ~Truthy(authoritative_field))
     /\ values # {}
  THEN CHOOSE x \in values : TRUE
  ELSE authoritative_field

\* The shared part without "if len(phones) > 1 or len(names) > 1 or len(emails) > 1".
AttributeUnchecked(authoritative, tokens) ==
  LET phones == CorroboratingPhones(PhoneSet(tokens), authoritative.phone)
      names == Corroborating(FieldSet(tokens, "name"), authoritative.name)
      emails == Corroborating(FieldSet(tokens, "email"), authoritative.email)
  IN [user |-> User(Adopt(authoritative.phone, Numbers(phones), TRUE),
                    Adopt(authoritative.name, names, FALSE),
                    Adopt(authoritative.email, emails, FALSE)),
      err |-> NoError]

\* The part GetSender and GetReceiver share: from the authoritative token and the
\* list of tokens whose fields go into phone_set, name_set and email_set, to the
\* User returned or the TypeError raised.
Attribute(authoritative, tokens) ==
  LET phones == CorroboratingPhones(PhoneSet(tokens), authoritative.phone)
      names == Corroborating(FieldSet(tokens, "name"), authoritative.name)
      emails == Corroborating(FieldSet(tokens, "email"), authoritative.email)
  IN IF Cardinality(phones) > 1 \/ Cardinality(names) > 1 \/ Cardinality(emails) > 1
     THEN [user |-> None, err |-> Some(MultipleInformation)]
     ELSE [user |-> User(Adopt(authoritative.phone, Numbers(phones), TRUE),
                         Adopt(authoritative.name, names, FALSE),
                         Adopt(authoritative.email, emails, FALSE)),
           err |-> NoError]

\* SmsMessage.GetSender
GetSender(m) ==
  IF m.type = 1 THEN Attribute(m.address, <<m.address, m.frome, m.subject>>)
  ELSE IF m.type > 1 THEN Attribute(m.frome, <<>>)
  ELSE [user |-> None, err |-> Some(UnsupportedType)]

\* SmsMessage.GetReceiver with "else" for "elif self.type > 1": every type but 1
\* is taken as sent.
GetReceiverAnyType(m) ==
  IF m.type = 1 THEN Attribute(m.to, <<>>)
  ELSE Attribute(m.address, <<m.address, m.to, m.subject>>)

\* SmsMessage.GetReceiver
GetReceiver(m) ==
  IF m.type = 1 THEN Attribute(m.to, <<>>)
  ELSE IF m.type > 1 THEN Attribute(m.address, <<m.address, m.to, m.subject>>)
  ELSE [user |-> None, err |-> Some(UnsupportedType)]

\* ---------------------------------------------------------------- SmsToChat

EmptyMap == [k \in {} |-> None]

\* Message(to, frome, timestamp, id, message), users by object id
Message(to, frome, id) == [to |-> to, frome |-> frome, id |-> id]

\* "self.convos.setdefault(mail.uuid, {});
\*  self.convos[mail.uuid].setdefault(mail.thread, []);
\*  self.convos[mail.uuid][mail.thread].append(sms)"
ConvosAppend(c, uuid, thread, sms) ==
  LET c1 == SetDefault(c, uuid, EmptyMap)
      c2 == [c1 EXCEPT ![uuid] = SetDefault(@, thread, <<>>)]
  IN [c2 EXCEPT ![uuid][thread] = Append(@, sms)]

\* "self.users.Update(mail.GetSender()); self.users.Update(mail.GetReceiver())":
\* the registry afterwards and the exception that cut the statements short, if any
FeedMail(reg, m) ==
  LET s == GetSender(m) IN
  IF s.err # NoError THEN Outcome(reg, s.err)
  ELSE LET u1 == UsersUpdate(reg, s.user) IN
       IF u1.err # NoError THEN u1
       ELSE LET r == GetReceiver(m) IN
            IF r.err # NoError THEN Outcome(u1.reg, r.err)
            ELSE UsersUpdate(u1.reg, r.user)

\* "user1 = self.users.Find(mail.GetSender()); user2 = self.users.Find(mail.GetReceiver())"
\* (and the same two statements of _IndexMessages): the two object ids, or the
\* exception. The lookup of self.users.Find comes before the call of GetSender
\* and raises, so neither name is assigned and no message is attributed.
FindBoth(reg, m) ==
  [user1 |-> NotFound, user2 |-> NotFound, err |-> Some(FindAttributeError)]

\* The registry calls the two statements of FeedMail get to make, in order.
FeedCalls(reg, m) ==
  LET s == GetSender(m) IN
  IF s.err # NoError THEN <<>>
  ELSE IF UsersUpdate(reg, s.user).err # NoError THEN <<"Update">>
  ELSE IF GetReceiver(m).err # NoError THEN <<"Update">>
  ELSE <<"Update", "Update">>

\* The registry calls the two statements of FindBoth get to make, in order: none,
\* the first lookup of Find raises.
FindCalls(reg, m) == <<>>

\* ---------------------------------------------------------------- inputs

MaxUpdates == 2    \* Interactions.Update calls of one run of the index
MaxCalls == 4      \* Users.Update / ProcessPartialUsers calls on one registry
MaxMails == 2      \* messages loaded into one SmsToChat run
MaxDirect == 1     \* User.Update calls on objects a registry holds

P == Some("2025550101")
Q == Some("2025550102")
Bob == Some("Bob")
Carl == Some("Carl")
Me == Some("Me")
Null == Some("null")
Empty == Some("")
BobMail == Some("bob@x.com")
OldMail == Some("bob@old.com")
MeMail == Some("me@x.com")

\* Identities handed to Interactions: two plain ones and two that differ only in
\* a name of None against the name 'None'.
Identities ==
  { User(P, Bob, None),
    User(None, Carl, OldMail),
    User(None, Some("None"), MeMail),
    User(None, None, MeMail) }

\* Fragments fed to the registry: every part of one person (P, Bob, bob@x.com),
\* a name and an email that conflict with that person's, the 'null' and ''
\* names with and without the phone, and a second phone under the same name.
PersonFragments ==
  { User(p, n, e) : p \in {None, P}, n \in {None, Bob}, e \in {None, BobMail} }
    \ {User(None, None, None)}

Fragments ==
  PersonFragments \cup
  { User(P, Carl, None), User(P, None, OldMail), User(None, Bob, OldMail),
    User(P, Null, None), User(P, Empty, None), User(Q, Bob, None),
    User(None, Null, BobMail) }

\* Arguments of User.Update called on an object the registry holds: the name
\* 'null', a phone, a second name, and a second phone, name and email at once.
DirectArgs ==
  { User(None, Null, None), User(P, None, None), User(None, Carl, None),
    User(Q, Carl, OldMail) }

\* Tokens of the header fields, as LineToken parses them.
LineTokens ==
  { LineToken(P, None, None), LineToken(Q, None, None),
    LineToken(None, Bob, None), LineToken(None, Carl, None),
    LineToken(None, Empty, None),
    LineToken(None, None, BobMail), LineToken(None, None, OldMail),
    LineToken(None, Bob, BobMail), LineToken(None, Carl, OldMail),
    LineToken(None, Empty, BobMail) }

SmsMessage(to, frome, subject, address, type, thread, id) ==
  [to |-> to, frome |-> frome, subject |-> subject, address |-> address,
   type |-> type, thread |-> thread, id |-> id, uuid |-> None]

\* x-smssync-type values: -1 and 0 are below the received type 1; 2 is sent, 3 a
\* draft.
Types == -1 .. 3

Mails ==
  { SmsMessage(to, frome, subject, address, type, 1, 1) :
      to \in LineTokens, frome \in LineTokens, subject \in LineTokens,
      address \in LineTokens, type \in Types }

\* The messages of an archive: the device owner is me@x.com, by email alone or
\* as "Me" <me@x.com>; the other side is the phone P or Q, which the subject
\* 'SMS with ...' repeats or names.
Owner == LineToken(None, None, MeMail)
NamedOwner == LineToken(None, Me, MeMail)

\* The subject 'SMS with <phone>' or 'SMS with <contact name>'.
Subject(phone, contact) ==
  IF contact = None THEN LineToken(phone, None, None) ELSE LineToken(None, contact, None)

\* A message received from phone: <phone>@unknown.person writes to the owner.
Received(owner, phone, contact, thread) ==
  SmsMessage(owner, LineToken(phone, None, None), Subject(phone, contact),
             LineToken(phone, None, None), 1, thread, 0)

\* A message sent to phone: the owner writes to <phone>@unknown.person.
Sent(owner, phone, contact, thread) ==
  SmsMessage(LineToken(phone, None, None), owner, Subject(phone, contact),
             LineToken(phone, None, None), 2, thread, 0)

ArchiveMails ==
  { Received(Owner, phone, contact, thread) :
      phone \in {P, Q}, contact \in {None, Bob}, thread \in 1 .. 2 }
  \cup
  { Sent(Owner, phone, contact, thread) :
      phone \in {P, Q}, contact \in {None, Bob}, thread \in 1 .. 2 }
  \cup
  { Received(Owner, P, Carl, 1),
    Received(NamedOwner, P, None, 1),
    Sent(NamedOwner, P, None, 1),
    [Received(Owner, P, None, 1) EXCEPT !.type = 0],
    [Received(Owner, P, Carl, 1) EXCEPT !.frome = LineToken(None, Bob, None)] }

\* The archives of n messages loaded, the id of each its position.
Archives(n) ==
  { [i \in 1 .. n |-> [ms[i] EXCEPT !.id = i]] : ms \in [1 .. n -> ArchiveMails] }

\* ---------------------------------------------------------------- SmsMessage.__init__

\* The headers SmsMessage.__init__ reads without a default, in the order it
\* reads them.
Headers ==
  { "date", "to", "from", "subject", "x-smssync-id", "x-smssync-address",
    "x-smssync-type", "x-smssync-date", "x-smssync-thread" }

\* email.get(name) of the rfc822.Message a mailbox.Maildir yields: the header's
\* text, or None when the message has no such header.
Header(e, name) == e.headers[name]

\* email[name] of that message raises KeyError when it has no such header.
RaisesKeyError(e, name) == e.headers[name] = None

\* LineToken._ParsePhoneNameEmail on the header texts of the messages below.
ParsePhoneNameEmail(raw_data) ==
  CASE raw_data = "me@x.com" -> LineToken(None, None, MeMail)
    [] raw_data = "\"Me\" <me@x.com>" -> LineToken(None, Me, MeMail)
    [] raw_data = "2025550101@unknown.person" -> LineToken(P, None, None)
    [] raw_data = "2025550101" -> LineToken(P, None, None)
    [] raw_data = "SMS with 2025550101" -> LineToken(P, None, None)
    [] raw_data = "SMS with Bob" -> LineToken(None, Bob, None)

\* int(text) on the header texts of the messages below.
IntOf(text) ==
  CASE text = "1" -> 1
    [] text = "2" -> 2
    [] text = "7" -> 7

\* "except KeyError, e: ... raise InitError('INVALID SMS email: %s', email)"
InitError(e) == <<"INVALID SMS email: %s", e>>

\* int(None) of "int(email.get('x-smssync-type'))"
IntTypeError == <<"int() argument must be a string or a number, not 'NoneType'">>

\* pytz.timezone(tz) raises UnknownTimeZoneError, a KeyError, on other names.
KnownTimezones == {"Etc/UTC"}

\* The outcome of a construction: the object, or the exception that left it.
Constructed(message) == [message |-> Some(message), err |-> NoError]
ConstructionRaised(err) == [message |-> None, err |-> Some(err)]

\* SmsMessage.__init__(email, tz): the statements of the try block in order, the
\* first that raises ends it; a KeyError is turned into InitError and any other
\* exception leaves the constructor as it is.
SmsMessageInit(e) ==
  IF RaisesKeyError(e, "date") THEN ConstructionRaised(InitError(e))
  ELSE IF RaisesKeyError(e, "to") THEN ConstructionRaised(InitError(e))
  ELSE IF RaisesKeyError(e, "from") THEN ConstructionRaised(InitError(e))
  ELSE IF RaisesKeyError(e, "subject") THEN ConstructionRaised(InitError(e))
  ELSE IF RaisesKeyError(e, "x-smssync-id") THEN ConstructionRaised(InitError(e))
  ELSE IF RaisesKeyError(e, "x-smssync-address") THEN ConstructionRaised(InitError(e))
  ELSE IF Header(e, "x-smssync-type") = None THEN ConstructionRaised(IntTypeError)
  ELSE IF RaisesKeyError(e, "x-smssync-date") THEN ConstructionRaised(InitError(e))
  ELSE IF RaisesKeyError(e, "x-smssync-thread") THEN ConstructionRaised(InitError(e))
  ELSE IF e.tz \notin KnownTimezones THEN ConstructionRaised(InitError(e))
  ELSE Constructed(SmsMessage(ParsePhoneNameEmail(Header(e, "to")[1]),
                              ParsePhoneNameEmail(Header(e, "from")[1]),
                              ParsePhoneNameEmail(Header(e, "subject")[1]),
                              ParsePhoneNameEmail(Header(e, "x-smssync-address")[1]),
                              IntOf(Header(e, "x-smssync-type")[1]),
                              IntOf(Header(e, "x-smssync-thread")[1]),
                              IntOf(Header(e, "x-smssync-id")[1])))

\* The maildir messages constructed from: each header absent or with a text of
\* an SMS Backup+ email, under a timezone name pytz knows or not.
OptionalText(texts) == {None} \cup {Some(t) : t \in texts}

MaildirMessages ==
  { [headers |-> ("date" :> maildate) @@ ("to" :> to) @@ ("from" :> frome)
                 @@ ("subject" :> subject)
                 @@ ("x-smssync-id" :> id) @@ ("x-smssync-address" :> address)
                 @@ ("x-smssync-type" :> type) @@ ("x-smssync-date" :> date)
                 @@ ("x-smssync-thread" :> thread),
     tz |-> tz] :
      maildate \in OptionalText({"Tue, 13 May 2014 16:53:20 +0000"}),
      to \in OptionalText({"me@x.com", "\"Me\" <me@x.com>"}),
      frome \in OptionalText({"2025550101@unknown.person"}),
      subject \in OptionalText({"SMS with 2025550101", "SMS with Bob"}),
      id \in OptionalText({"7"}),
      address \in OptionalText({"2025550101"}),
      type \in OptionalText({"1", "2"}),
      date \in OptionalText({"1400000000000"}),
      thread \in OptionalText({"1"}),
      tz \in {"Etc/UTC", "Mars/Phobos"} }

\* ---------------------------------------------------------------- state machines

NoCall == None

NoHistory ==
  [fed |-> {}, calls |-> 0, passes |-> 0, late |-> FALSE, raised |-> FALSE,
   direct |-> 0]

IdleInteractions ==
  /\ usermap = EmptyMap
  /\ uuids = 0
  /\ minted = EmptyMap
  /\ igot = NoCall

IdleRegistry ==
  /\ heap = <<>>
  /\ users = <<>>
  /\ partial_users = <<>>
  /\ ucall = NoCall
  /\ uhist = NoHistory

IdleAttribution ==
  /\ mail = None
  /\ attributed = NoCall

IdleIndexer ==
  /\ smss = <<>>
  /\ convos = EmptyMap
  /\ pc = "idle"
  /\ cursor = 0
  /\ failure = NoError
  /\ oplog = <<>>

IdleLoad ==
  /\ raw_email = None
  /\ loaded = NoCall

\* The registry the variables hold.
TheRegistry == Registry(heap, users, partial_users)

\* ---- Interactions, called with any identities

InitInteractions ==
  IdleInteractions /\ IdleRegistry /\ IdleAttribution /\ IdleIndexer /\ IdleLoad

\* interactions.Update(user1, user2): a uuid is drawn on every call
CallInteractionsUpdate(user1, user2) ==
  /\ uuids < MaxUpdates
  /\ uuids' = uuids + 1
  /\ usermap' = InteractionsUpdate(usermap, user1, user2, uuids + 1)
  /\ minted' = SetDefault(minted, {user1, user2}, uuids + 1)
  /\ igot' = NoCall
  /\ UNCHANGED <<registryVars, attributionVars, indexerVars, loadVars>>

\* interactions.Get(user1, user2)
CallInteractionsGet(user1, user2) ==
  /\ igot' = [user1 |-> user1, user2 |-> user2,
              out |-> InteractionsGet(usermap, user1, user2)]
  /\ UNCHANGED <<usermap, uuids, minted, registryVars, attributionVars, indexerVars, loadVars>>

NextInteractions ==
  \/ \E user1, user2 \in Identities : CallInteractionsUpdate(user1, user2)
  \/ \E user1, user2 \in Identities : CallInteractionsGet(user1, user2)

SpecInteractions == InitInteractions /\ [][NextInteractions]_vars

\* ---- Users, called with any fragments in any order

InitUsers ==
  IdleInteractions /\ IdleRegistry /\ IdleAttribution /\ IdleIndexer /\ IdleLoad

SetRegistry(reg) ==
  /\ heap' = reg.heap
  /\ users' = reg.users
  /\ partial_users' = reg.partial_users

\* users.Update(new_user)
CallUsersUpdate(new_user) ==
  /\ uhist.calls < MaxCalls
  /\ LET out == UsersUpdate(TheRegistry, new_user) IN
       /\ SetRegistry(out.reg)
       /\ ucall' = [op |-> "Update", arg |-> new_user, err |-> out.err,
                    found |-> NotFound]
       /\ uhist' = [fed |-> uhist.fed \cup {new_user},
                    calls |-> uhist.calls + 1,
                    passes |-> uhist.passes,
                    late |-> uhist.late \/ uhist.passes > 0,
                    raised |-> uhist.raised \/ out.err # NoError,
                    direct |-> uhist.direct]
  /\ UNCHANGED <<interactionVars, attributionVars, indexerVars, loadVars>>

\* users.ProcessPartialUsers()
CallProcessPartialUsers ==
  /\ uhist.calls < MaxCalls
  /\ LET out == ProcessPartialUsers(TheRegistry) IN
       /\ SetRegistry(out.reg)
       /\ ucall' = [op |-> "ProcessPartialUsers", arg |-> None, err |-> out.err,
                    found |-> NotFound]
       /\ uhist' = [fed |-> uhist.fed,
                    calls |-> uhist.calls + 1,
                    passes |-> uhist.passes + 1,
                    late |-> uhist.late,
                    raised |-> uhist.raised \/ out.err # NoError,
                    direct |-> uhist.direct]
  /\ UNCHANGED <<interactionVars, attributionVars, indexerVars, loadVars>>

\* users.Find(fragment) as _IndexUsers calls it, for a fragment that was fed,
\* after ProcessPartialUsers: the lookup of Find raises AttributeError and the
\* registry is as it was
CallFind(fragment) ==
  /\ ucall # NoCall
  /\ ucall.op = "ProcessPartialUsers"
  /\ fragment \in uhist.fed
  /\ ucall' = [op |-> "Find", arg |-> fragment, err |-> Some(FindAttributeError),
               found |-> NotFound]
  /\ UNCHANGED <<heap, users, partial_users, uhist,
                 interactionVars, attributionVars, indexerVars, loadVars>>

\* user.Update(phone, name, email) on the User object id, one of the objects
\* handed to Users.Update, which the caller can still reach
CallUserUpdate(id, args) ==
  /\ uhist.calls < MaxCalls
  /\ uhist.direct < MaxDirect
  /\ id \in DOMAIN heap
  /\ LET out == UserUpdate(heap[id], args.phone, args.name, args.email) IN
       /\ heap' = [heap EXCEPT ![id] = out.user]
       /\ ucall' = [op |-> "UserUpdate", arg |-> args, err |-> out.err,
                    found |-> id]
       /\ uhist' = [uhist EXCEPT !.calls = @ + 1,
                                 !.direct = @ + 1,
                                 !.raised = @ \/ out.err # NoError]
  /\ UNCHANGED <<users, partial_users, interactionVars, attributionVars, indexerVars,
                 loadVars>>

NextUsers ==
  \/ \E new_user \in Fragments : CallUsersUpdate(new_user)
  \/ CallProcessPartialUsers
  \/ \E fragment \in Fragments : CallFind(fragment)
  \/ \E id \in 1 .. MaxCalls : \E args \in DirectArgs : CallUserUpdate(id, args)

SpecUsers == InitUsers /\ [][NextUsers]_vars

\* ---- SmsMessage.GetSender / GetReceiver on any message

InitAttribution ==
  /\ mail \in Mails
  /\ attributed = NoCall
  /\ IdleInteractions /\ IdleRegistry /\ IdleIndexer /\ IdleLoad

CallGetSender ==
  /\ attributed' = [side |-> "sender", out |-> GetSender(mail)]
  /\ UNCHANGED <<mail, interactionVars, registryVars, indexerVars, loadVars>>

CallGetReceiver ==
  /\ attributed' = [side |-> "receiver", out |-> GetReceiver(mail)]
  /\ UNCHANGED <<mail, interactionVars, registryVars, indexerVars, loadVars>>

NextAttribution == CallGetSender \/ CallGetReceiver

SpecAttribution == InitAttribution /\ [][NextAttribution]_vars

\* ---- SmsMessage(email, tz), on any maildir message

InitLoad ==
  /\ raw_email \in MaildirMessages
  /\ loaded = NoCall
  /\ IdleInteractions /\ IdleRegistry /\ IdleAttribution /\ IdleIndexer

\* sms_messages.append(SmsMessage(email, timezone))
CallSmsMessageInit ==
  /\ loaded = NoCall
  /\ loaded' = SmsMessageInit(raw_email)
  /\ UNCHANGED <<raw_email, interactionVars, registryVars, attributionVars, indexerVars>>

NextLoad == CallSmsMessageInit

SpecLoad == InitLoad /\ [][NextLoad]_vars

\* ---- SmsToChat.Process on a loaded archive

InitIndexer ==
  /\ \E n \in 1 .. MaxMails : smss \in Archives(n)
  /\ convos = EmptyMap
  /\ pc = "feed"
  /\ cursor = 1
  /\ failure = NoError
  /\ oplog = <<>>
  /\ IdleInteractions /\ IdleRegistry /\ IdleAttribution /\ IdleLoad

\* The exception caught and dropped: the run goes on to return what it has.
RaiseAndGoOn(err) ==
  /\ pc' = "export"
  /\ failure' = err

\* the exception leaves _IndexUsers, _IndexMessages, Process and main, none of
\* which catches it: nothing is returned and nothing is written
Raise(err) ==
  /\ pc' = "raised"
  /\ failure' = err

\* the loop goes on to the next message, or the run to what follows the loop
Advance(after) ==
  /\ failure' = failure
  /\ IF cursor < Len(smss)
     THEN pc' = pc /\ cursor' = cursor + 1
     ELSE pc' = after /\ cursor' = 1

\* _IndexUsers with "self.users.ProcessPartialUsers()" inside the first loop:
\* the partial users are processed after each message.
IndexUsersFeedAndProcess ==
  /\ pc = "feed"
  /\ LET fed == FeedMail(TheRegistry, smss[cursor])
         out == IF fed.err # NoError THEN fed ELSE ProcessPartialUsers(fed.reg)
     IN
       /\ SetRegistry(out.reg)
       /\ oplog' = oplog \o FeedCalls(TheRegistry, smss[cursor])
                    \o (IF fed.err # NoError THEN <<>> ELSE <<"ProcessPartialUsers">>)
       /\ IF out.err # NoError
          THEN Raise(out.err) /\ cursor' = cursor
          ELSE Advance("partials")
  /\ UNCHANGED <<ucall, uhist, interactionVars, attributionVars, loadVars, smss, convos>>

\* _IndexUsers, one pass of the first "for mail in self.smss"
IndexUsersFeed ==
  /\ pc = "feed"
  /\ LET out == FeedMail(TheRegistry, smss[cursor]) IN
       /\ SetRegistry(out.reg)
       /\ oplog' = oplog \o FeedCalls(TheRegistry, smss[cursor])
       /\ IF out.err # NoError
          THEN Raise(out.err) /\ cursor' = cursor
          ELSE Advance("partials")
  /\ UNCHANGED <<ucall, uhist, interactionVars, attributionVars, loadVars, smss, convos>>

\* _IndexUsers, "self.users.ProcessPartialUsers()"
IndexUsersProcessPartials ==
  /\ pc = "partials"
  /\ LET out == ProcessPartialUsers(TheRegistry) IN
       /\ SetRegistry(out.reg)
       /\ oplog' = Append(oplog, "ProcessPartialUsers")
       /\ IF out.err # NoError
          THEN Raise(out.err)
          ELSE pc' = "link" /\ failure' = failure
  /\ UNCHANGED <<cursor, ucall, uhist, interactionVars, attributionVars, loadVars, smss, convos>>

\* _IndexUsers, one pass of the second "for mail in self.smss"
IndexUsersLink ==
  /\ pc = "link"
  /\ LET found == FindBoth(TheRegistry, smss[cursor]) IN
       IF found.err # NoError
       THEN /\ Raise(found.err)
            /\ oplog' = oplog \o FindCalls(TheRegistry, smss[cursor])
            /\ UNCHANGED <<cursor, smss, usermap, uuids, minted>>
       ELSE LET user1 == heap[found.user1]
                user2 == heap[found.user2]
                map == InteractionsUpdate(usermap, user1, user2, uuids + 1)
            IN /\ usermap' = map
               /\ uuids' = uuids + 1
               /\ minted' = SetDefault(minted, {user1, user2}, uuids + 1)
               /\ smss' = [smss EXCEPT
                             ![cursor].uuid = Some(InteractionsGet(map, user1, user2))]
               /\ oplog' = oplog \o FindCalls(TheRegistry, smss[cursor])
                            \o <<"InteractionsUpdate", "InteractionsGet">>
               /\ Advance("bucket")
  /\ UNCHANGED <<igot, registryVars, attributionVars, loadVars, convos>>

\* _IndexMessages, one pass of "for mail in self.smss"
IndexMessagesBucket ==
  /\ pc = "bucket"
  /\ LET m == smss[cursor]
         found == FindBoth(TheRegistry, m)
     IN IF found.err # NoError
        THEN /\ Raise(found.err)
             /\ oplog' = oplog \o FindCalls(TheRegistry, m)
             /\ UNCHANGED <<cursor, convos>>
        ELSE /\ convos' = ConvosAppend(convos, m.uuid[1], m.thread,
                                       Message(found.user2, found.user1, m.id))
             /\ oplog' = oplog \o FindCalls(TheRegistry, m)
             /\ Advance("export")
  /\ UNCHANGED <<interactionVars, registryVars, attributionVars, loadVars, smss>>

\* Process, after _IndexMessages: the chat logs of self.convos are returned
ProcessReturn ==
  /\ pc = "export"
  /\ pc' = "returned"
  /\ UNCHANGED <<cursor, failure, oplog, convos, smss, interactionVars, registryVars,
                 attributionVars, loadVars>>

\* main, after "logs = sms_chat.Process()": every log is written to its file
MainWriteLogs ==
  /\ pc = "returned"
  /\ pc' = "written"
  /\ UNCHANGED <<cursor, failure, oplog, convos, smss, interactionVars, registryVars,
                 attributionVars, loadVars>>

\* The steps of a run. IndexUsersLink raises on its first pass, so the run never
\* gets to IndexMessagesBucket, ProcessReturn and MainWriteLogs.
NextIndexer ==
  \/ IndexUsersFeed
  \/ IndexUsersProcessPartials
  \/ IndexUsersLink

SpecIndexer == InitIndexer /\ [][NextIndexer]_vars

Spec == SpecIndexer

\* ---------------------------------------------------------------- Interactions: properties

\* The pairs of identities Update has been called with, in either order.
UpdatedPairs == DOMAIN minted

\* C1: after one Interactions.Update(A, B) call on an index, Get(A, B) and
\* Get(B, A) both succeed and return the same key, for all identities A and B.
C1_OneUpdateServesBothOrders ==
  uuids = 1 =>
    \A pair \in UpdatedPairs : \A a, b \in pair :
      pair = {a, b} =>
      /\ InteractionsGet(usermap, a, b) # KeyError
      /\ InteractionsGet(usermap, b, a) # KeyError
      /\ InteractionsGet(usermap, a, b) = InteractionsGet(usermap, b, a)

\* C1 witness: one Update of two different identities, then a Get that returned
\* its key for the order the map holds second.
C1_Witness ==
  /\ uuids = 1
  /\ igot # NoCall
  /\ igot.user1 # igot.user2
  /\ {igot.user1, igot.user2} \in UpdatedPairs
  /\ igot.out = 1
  /\ Cardinality(DOMAIN usermap) = 2

\* C6: after any sequence of Update calls, Get(A, B) returns the key drawn by the
\* first Update for the unordered pair {A, B}; later Updates of the pair never
\* change it.
C6_FirstUpdateOfThePairWins ==
  \A pair \in UpdatedPairs : \A a, b \in pair :
    pair = {a, b} => InteractionsGet(usermap, a, b) = minted[pair]

\* C7: after any sequence of Update calls, two different unordered pairs of
\* identities never share a conversation key.
C7_OneKeyPerPair ==
  \A pair1, pair2 \in UpdatedPairs :
    pair1 # pair2 =>
      \A a, b \in pair1 : \A c, d \in pair2 :
        (pair1 = {a, b} /\ pair2 = {c, d}) =>
          InteractionsGet(usermap, a, b) # InteractionsGet(usermap, c, d)

\* C16: Get(A, B) for a pair that no Update was called for, in either order,
\* fails with the KeyError and leaves the index as it was.
C16_GetOfUnknownPairFails ==
  [][ \A user1, user2 \in Identities :
        (/\ igot' # NoCall
         /\ igot' # igot
         /\ igot'.user1 = user1 /\ igot'.user2 = user2
         /\ {user1, user2} \notin UpdatedPairs) =>
          (igot'.out = KeyError /\ usermap' = usermap /\ uuids' = uuids)
    ]_vars


Fields == {"phone", "name", "email"}

\* A field holds a value: a phone number, or a string other than ''.
Populated(field, value) == IF field = "phone" THEN value # None ELSE Truthy(value)

\* The value a fragment brings for a field: its name with 'null' taken as empty.
Incoming(fragment, field) ==
  IF field = "name" THEN NullToNone(fragment.name) ELSE fragment[field]

\* Two values of a field conflict: both populated and different.
Conflicting(field, existing, incoming) ==
  Populated(field, existing) /\ Populated(field, incoming) /\ existing # incoming

\* The fragments fed describe one person with a phone: all are parts of
\* (P, Bob, bob@x.com), one at least carries the phone, and each fragment without
\* the phone carries a name or an email that a fragment with the phone carries too.
DescribeOnePerson(fed) ==
  /\ fed \subseteq PersonFragments
  /\ \E f \in fed : f.phone # None
  /\ \A f \in fed :
       f.phone = None =>
         \E g \in fed :
           /\ g.phone # None
           /\ \/ f.name # None /\ g.name = f.name
              \/ f.email # None /\ g.email = f.email

\* Every Update came before the one ProcessPartialUsers.
FedThenProcessed == uhist.passes = 1 /\ ~uhist.late

\* The User objects of the registry were written by Users.Update and
\* ProcessPartialUsers alone: User.Update was not called on one of them from
\* outside the registry.
RegistryOnly == uhist.direct = 0

\* C2: when the fragments fed to Update describe one person and share a phone
\* number, then after ProcessPartialUsers no call has raised and Find returns one
\* and the same canonical identity, the one with that phone, for every fragment
\* fed.
C2_OnePersonOneIdentity ==
  (/\ FedThenProcessed
   /\ RegistryOnly
   /\ DescribeOnePerson(uhist.fed)
   /\ ucall # NoCall
   /\ ucall.op = "Find") =>
    /\ ~uhist.raised
    /\ ucall.err = NoError
    /\ ucall.found \in {users[j] : j \in 1 .. Len(users)}
    /\ heap[ucall.found].phone = P

\* The step is a call of Users.Update or ProcessPartialUsers.
RegistryCall(op) == uhist'.calls = uhist.calls + 1 /\ ucall'.op = op

\* Before the step a partial user matches a canonical identity on the email with
\* conflicting names, or on the name with conflicting emails.
PartialConflict ==
  \E i \in 1 .. Len(partial_users) : \E j \in 1 .. Len(users) :
    LET partial_user == heap[partial_users[i]]
        user == heap[users[j]]
    IN \/ /\ FieldMatch(user.email, partial_user.email)
          /\ Conflicting("name", user.name, Incoming(partial_user, "name"))
       \/ /\ ~FieldMatch(user.email, partial_user.email)
          /\ FieldMatch(user.name, partial_user.name)
          /\ Conflicting("email", user.email, partial_user.email)

\* The canonical identity Update(fragment) merges into has a name or an email
\* that conflicts with the fragment's.
UpdateConflict(fragment) ==
  /\ PhoneMatch(TheRegistry, fragment, 1) # 0
  /\ LET user == heap[users[PhoneMatch(TheRegistry, fragment, 1)]] IN
       \E field \in {"name", "email"} :
         Conflicting(field, user[field], Incoming(fragment, field))

\* C3: across any sequence of Update and ProcessPartialUsers calls a populated
\* field of a canonical identity never changes, and a call that would merge a
\* different populated value into it raises the conflict error.
C3_PopulatedFieldsNeverChange ==
  [][ /\ \A i \in 1 .. Len(users) : \A field \in Fields :
           Populated(field, heap[users[i]][field]) =>
             heap'[users[i]][field] = heap[users[i]][field]
      /\ (RegistryCall("Update") /\ UpdateConflict(ucall'.arg)) => ucall'.err # NoError
      /\ (RegistryCall("ProcessPartialUsers") /\ PartialConflict) => ucall'.err # NoError
    ]_vars

\* C3 witness: a ProcessPartialUsers that raised on a second email for the name
\* of a canonical identity, which still has its own email.
C3_Witness ==
  /\ ucall # NoCall
  /\ ucall.op = "ProcessPartialUsers"
  /\ ucall.err = ConflictError("email")
  /\ \E j \in 1 .. Len(users) : \E i \in 1 .. Len(partial_users) :
       /\ heap[users[j]].name = heap[partial_users[i]].name
       /\ Conflicting("email", heap[users[j]].email, heap[partial_users[i]].email)

\* C4: when a canonical identity has phone P and a populated name (or email),
\* Update with a fragment of phone P and a different populated name (or email)
\* raises the conflict error, which names the field: the name when the names
\* differ, the email when only the emails differ.
C4_ConflictNamesTheField ==
  [][ \A fragment \in Fragments :
        (RegistryCall("Update") /\ ucall'.arg = fragment
           /\ PhoneMatch(TheRegistry, fragment, 1) # 0) =>
          LET user == heap[users[PhoneMatch(TheRegistry, fragment, 1)]] IN
            /\ Conflicting("name", user.name, Incoming(fragment, "name")) =>
                 ucall'.err = ConflictError("name")
            /\ (/\ Conflicting("email", user.email, fragment.email)
                /\ ~Conflicting("name", user.name, Incoming(fragment, "name"))) =>
                 ucall'.err = ConflictError("email")
    ]_vars

\* C4 witness: Update of (P, Carl) has raised on the name of the identity (P, Bob).
C4_Witness ==
  /\ ucall # NoCall
  /\ ucall.op = "Update"
  /\ ucall.arg = User(P, Carl, None)
  /\ ucall.err = ConflictError("name")
  /\ \E j \in 1 .. Len(users) :
       heap[users[j]].phone = P /\ heap[users[j]].name = Bob

\* C11: a second Update with the fragment of an Update that has just succeeded
\* raises no error, whatever the registry held before the first.
C11_RepeatedUpdateRaisesNothing ==
  [][ (/\ ucall # NoCall
       /\ ucall.op = "Update"
       /\ ucall.err = NoError
       /\ RegistryCall("Update")
       /\ ucall'.arg = ucall.arg) => ucall'.err = NoError ]_vars

\* C11 witness: (P, Bob, bob@x.com) was fed twice in a row to a registry that
\* held (P, None, None), and the second call has returned.
C11_Witness ==
  /\ ucall # NoCall
  /\ ucall.op = "Update"
  /\ ucall.arg = User(P, Bob, BobMail)
  /\ ucall.err = NoError
  /\ uhist.calls = 3
  /\ uhist.passes = 0
  /\ uhist.fed = {User(P, None, None), User(P, Bob, BobMail)}
  /\ Len(users) = 1
  /\ heap[users[1]] = User(P, Bob, BobMail)

\* Every partial user brings the name 'null' or no name.
PartialsBringNoName ==
  \A i \in 1 .. Len(partial_users) :
    ~Populated("name", Incoming(heap[partial_users[i]], "name"))

\* C12: in a registry written by its own calls alone, a canonical identity
\* whose name is empty never gets the name 'null';
\* an Update that merges a fragment named 'null' into it, and a
\* ProcessPartialUsers whose partial users are named 'null' or not at all, leave
\* its name as it was and raise no name conflict.
C12_NullNameStaysEmpty ==
  [][ \A j \in 1 .. Len(users) :
        (RegistryOnly' /\ ~Populated("name", heap[users[j]].name)) =>
          /\ heap'[users[j]].name # Null
          /\ (/\ RegistryCall("Update")
              /\ ucall'.arg.name = Null
              /\ PhoneMatch(TheRegistry, ucall'.arg, 1) = j) =>
               (/\ heap'[users[j]].name = heap[users[j]].name
                /\ ucall'.err # ConflictError("name"))
          /\ (RegistryCall("ProcessPartialUsers") /\ PartialsBringNoName) =>
               (/\ heap'[users[j]].name = heap[users[j]].name
                /\ ucall'.err # ConflictError("name"))
    ]_vars

\* C12 witness: Update of (P, 'null', None) has returned on the identity
\* (P, None, bob@x.com), whose name is still None.
C12_Witness ==
  /\ RegistryOnly
  /\ ucall # NoCall
  /\ ucall.op = "Update"
  /\ ucall.arg = User(P, Null, None)
  /\ ucall.err = NoError
  /\ Len(users) = 1
  /\ heap[users[1]] = User(P, None, BobMail)

\* A canonical identity matches a partial user on the phone, the email or the
\* name: the field is equal in both and not None.
MatchesPartial(user, partial_user) ==
  \/ FieldMatch(user.phone, partial_user.phone)
  \/ FieldMatch(user.email, partial_user.email)
  \/ FieldMatch(user.name, partial_user.name)

\* The positions in the canonical list whose identity matches the partial user.
MatchPositions(partial_user) ==
  {j \in 1 .. Len(users) : MatchesPartial(heap[users[j]], partial_user)}

\* The first of the positions.
FirstPosition(positions) == CHOOSE j \in positions : \A k \in positions : j <= k

\* C18: in a registry written by its own calls alone, ProcessPartialUsers merges a partial user into the first canonical
\* identity that matches it and into no other: with one partial user in the list,
\* every canonical identity but the first match is left as it was.
C18_MergedIntoFirstMatchOnly ==
  [][ (RegistryOnly /\ RegistryCall("ProcessPartialUsers") /\ Len(partial_users) = 1) =>
        LET positions == MatchPositions(heap[partial_users[1]]) IN
          \A j \in 1 .. Len(users) :
            (positions = {} \/ j # FirstPosition(positions)) =>
              heap'[users[j]] = heap[users[j]]
    ]_vars

\* C19: in a registry written by its own calls alone, ProcessPartialUsers promotes a partial user into the canonical list if
\* and only if it matched no canonical identity: one that matches an identity of
\* the list is merged and not added, and a single partial user that matches none
\* is added.
C19_PromotedOnlyWhenUnmatched ==
  [][ (RegistryOnly /\ RegistryCall("ProcessPartialUsers") /\ ucall'.err = NoError) =>
        /\ \A i \in 1 .. Len(partial_users) :
             MatchPositions(heap[partial_users[i]]) # {} =>
               \A j \in 1 .. Len(users') : users'[j] # partial_users[i]
        /\ (Len(partial_users) = 1 /\ MatchPositions(heap[partial_users[1]]) = {}) =>
             users' = Append(users, partial_users[1])
    ]_vars

\* The partial users are phone-less and no two of them have equal phone, name
\* and email.
PartialsDistinct(h, ps) ==
  /\ \A i \in 1 .. Len(ps) : h[ps[i]].phone = None
  /\ \A i, j \in 1 .. Len(ps) :
       (/\ h[ps[i]].phone = h[ps[j]].phone
        /\ h[ps[i]].name = h[ps[j]].name
        /\ h[ps[i]].email = h[ps[j]].email) => i = j

\* new_user is phone-less and equal in phone, name and email to a partial user.
MatchesAPartial(new_user) ==
  /\ new_user.phone = None
  /\ \E i \in 1 .. Len(partial_users) : heap[partial_users[i]] = new_user

\* C21: while only Users.Update has been called, every Update leaves a partial list
\* of phone-less users, no two equal in phone, name and email; an Update with
\* a phone-less fragment equal to a partial user leaves the list as it was.
C21_PartialListHasNoDuplicates ==
  [][ (RegistryOnly /\ uhist.passes = 0 /\ RegistryCall("Update")) =>
        /\ PartialsDistinct(heap', partial_users')
        /\ MatchesAPartial(ucall'.arg) =>
             (partial_users' = partial_users /\ heap' = heap)
    ]_vars

\* C21 witness: (None, Bob, bob@x.com) and (None, Bob, None) were fed, one of
\* them twice, and the partial list holds two users.
C21_Witness ==
  /\ RegistryOnly
  /\ ucall # NoCall
  /\ ucall.op = "Update"
  /\ uhist.passes = 0
  /\ uhist.calls = 3
  /\ uhist.fed = {User(None, Bob, BobMail), User(None, Bob, None)}
  /\ Len(partial_users) = 2
  /\ Len(users) = 0

\* C23: after any sequence of Users.Update and ProcessPartialUsers calls, and
\* no other write to the registry's objects, no two
\* entries of the canonical list have the same phone, unless the phone is None.
C23_OnePhoneOneIdentity ==
  RegistryOnly =>
    \A i, j \in 1 .. Len(users) :
      FieldMatch(heap[users[i]].phone, heap[users[j]].phone) => i = j

\* C23 witness: (P, None, None) and (P, Bob, None) were fed and are one
\* identity, and ProcessPartialUsers has merged and promoted
\* (None, Bob, bob@x.com).
C23_Witness ==
  /\ RegistryOnly
  /\ ucall # NoCall
  /\ ucall.op = "ProcessPartialUsers"
  /\ ucall.err = NoError
  /\ uhist.fed = {User(P, None, None), User(P, Bob, None), User(None, Bob, BobMail)}
  /\ Len(users) = 2
  /\ heap[users[1]] = User(P, Bob, BobMail)
  /\ heap[users[2]] = User(None, Bob, BobMail)

\* The step is a call of Users.Update or ProcessPartialUsers that raises, in a
\* registry written by its own calls alone.
FailedRegistryCall ==
  /\ RegistryOnly
  /\ RegistryCall("Update") \/ RegistryCall("ProcessPartialUsers")
  /\ ucall'.err # NoError

\* C24 as stated: when Update or ProcessPartialUsers raises the conflict error,
\* every canonical identity has the field values it had before the call.
C24_FailedMergeIsAtomic ==
  [][ FailedRegistryCall =>
        \A j \in 1 .. Len(users) : heap'[users[j]] = heap[users[j]] ]_vars

\* C24 amended: when Update or ProcessPartialUsers raises the conflict error,
\* every canonical identity is still in the list and each of its fields that was
\* populated before the call has the value it had. An Update that raises on the
\* name has written nothing; one that raises on the email has written at most
\* the name of the identity with the fragment's phone.
C24_FailedMergeKeepsPopulatedFields ==
  [][ FailedRegistryCall =>
        /\ \A j \in 1 .. Len(users) :
             /\ users'[j] = users[j]
             /\ \A field \in Fields :
                  Populated(field, heap[users[j]][field]) =>
                    heap'[users[j]][field] = heap[users[j]][field]
        /\ RegistryCall("Update") =>
             /\ users' = users /\ partial_users' = partial_users
             /\ ucall'.err = ConflictError("name") => heap' = heap
             /\ \A id \in DOMAIN heap :
                  /\ heap'[id].phone = heap[id].phone
                  /\ heap'[id].email = heap[id].email
                  /\ id # users[PhoneMatch(TheRegistry, ucall'.arg, 1)] =>
                       heap'[id] = heap[id]
    ]_vars

\* C24 witness: Update of (P, Bob, bob@x.com) has raised on the email of the
\* identity (P, None, bob@old.com), which now has the name Bob.
C24_Witness ==
  /\ RegistryOnly
  /\ ucall # NoCall
  /\ ucall.op = "Update"
  /\ ucall.arg = User(P, Bob, BobMail)
  /\ ucall.err = ConflictError("email")
  /\ Len(users) = 1
  /\ heap[users[1]] = User(P, Bob, OldMail)

\* C25: after Users.Update calls followed by one ProcessPartialUsers, none of
\* which raised, and no other write to the registry's objects, no entry of the canonical list has the name 'null', whether it was
\* merged into, inserted as a new identity or promoted from the partial list.
C25_NoNullNameAfterProcessing ==
  (FedThenProcessed /\ RegistryOnly /\ ~uhist.raised) =>
    \A j \in 1 .. Len(users) : heap[users[j]].name # Null

\* ---------------------------------------------------------------- attribution: properties

\* The call made on the message: attributed.side of mail, with mail.type at least 1.
Attributed(side) == attributed # NoCall /\ attributed.side = side /\ mail.type >= 1

\* The authoritative token of a side: address for the sender of a received
\* message and for the receiver of a sent one, from and to for the other two.
AuthoritativeToken(side) ==
  IF side = "sender"
  THEN (IF mail.type = 1 THEN mail.address ELSE mail.frome)
  ELSE (IF mail.type = 1 THEN mail.to ELSE mail.address)

\* The corroborating tokens of a side: from and subject for the sender of a
\* received message, to and subject for the receiver of a sent one, else none.
CorroboratingTokens(side) ==
  IF side = "sender" /\ mail.type = 1 THEN {mail.frome, mail.subject}
  ELSE IF side = "receiver" /\ mail.type > 1 THEN {mail.to, mail.subject}
  ELSE {}

\* The distinct non-empty values the tokens carry for a field.
ValuesOf(tokens, field) == {t[field] : t \in tokens} \ {None, Some("")}

\* The values of a field that compete with the authoritative token's own.
Competing(side, field) ==
  ValuesOf(CorroboratingTokens(side), field) \ {AuthoritativeToken(side)[field]}

Ambiguous(side) == \E field \in Fields : Cardinality(Competing(side, field)) > 1

\* C8: on a received message for the sender, and on a sent message for the
\* receiver, when no field is ambiguous, every field the authoritative token
\* lacks and the corroborating tokens give exactly one distinct non-empty value
\* for is returned with that value, next to the authoritative token's populated
\* fields.
C8_CorroborationFillsGaps ==
  \A side \in {"sender", "receiver"} :
    (Attributed(side) /\ CorroboratingTokens(side) # {} /\ ~Ambiguous(side)) =>
      /\ attributed.out.err = NoError
      /\ \A field \in Fields :
           LET own == AuthoritativeToken(side)[field]
               given == ValuesOf(CorroboratingTokens(side), field)
           IN /\ Populated(field, own) => attributed.out.user[field] = own
              /\ (~Populated(field, own) /\ Cardinality(given) = 1) =>
                   attributed.out.user[field] \in given

\* C9: whenever, for one of phone, name and email, the corroborating tokens carry
\* more than one distinct non-empty value other than the authoritative token's
\* own, GetSender / GetReceiver raises the multiple-information error and returns
\* no identity.
C9_DisagreementIsAmbiguous ==
  \A side \in {"sender", "receiver"} :
    (Attributed(side) /\ Ambiguous(side)) =>
      /\ attributed.out.err = Some(MultipleInformation)
      /\ attributed.out.user = None

\* C9 witness: address={phone:P}, from={name:Bob}, subject={name:Carl}, received:
\* GetSender has raised.
C9_Witness ==
  /\ Attributed("sender")
  /\ mail.type = 1
  /\ mail.address = LineToken(P, None, None)
  /\ mail.frome = LineToken(None, Bob, None)
  /\ mail.subject = LineToken(None, Carl, None)
  /\ attributed.out.err = Some(MultipleInformation)

\* C10: whenever GetSender / GetReceiver returns an identity, each field the
\* authoritative token has populated is returned with the authoritative value,
\* whatever the corroborating tokens carry.
C10_AuthoritativeValueKept ==
  \A side \in {"sender", "receiver"} :
    (Attributed(side) /\ attributed.out.err = NoError) =>
      \A field \in Fields :
        Populated(field, AuthoritativeToken(side)[field]) =>
          attributed.out.user[field] = AuthoritativeToken(side)[field]

\* C10 witness: the address of a sent message names Bob, its to field names Carl:
\* the receiver is Bob.
C10_Witness ==
  /\ Attributed("receiver")
  /\ mail.type > 1
  /\ mail.address.name = Bob
  /\ mail.to.name = Carl
  /\ attributed.out.err = NoError
  /\ attributed.out.user.name = Bob

\* ---------------------------------------------------------------- indexer: properties

\* Every message of the archive is exchanged with one phone number.
OneContact ==
  \A k \in DOMAIN smss :
    smss[k].address.phone # None /\ smss[k].address.phone = smss[1].address.phone

\* Message i is received from a phone by the device owner, message j is sent by
\* the owner (from = an email) to that phone.
InboundOutbound(i, j) ==
  /\ smss[i].type = 1
  /\ smss[j].type > 1
  /\ smss[i].address.phone # None
  /\ smss[j].address.phone = smss[i].address.phone
  /\ smss[j].frome.email # None
  /\ smss[i].to.email = smss[j].frome.email

\* The message at position k is in the list convos[its uuid][its thread].
InBucket(k) ==
  LET m == smss[k] IN
    /\ m.uuid # None
    /\ m.uuid[1] \in DOMAIN convos
    /\ m.thread \in DOMAIN convos[m.uuid[1]]
    /\ \E n \in DOMAIN convos[m.uuid[1]][m.thread] :
         convos[m.uuid[1]][m.thread][n].id = m.id

\* The run has got past _IndexUsers, or has ended in an exception.
PastLinking == pc \in {"raised", "bucket", "export", "returned", "written"}
PastBucketing == pc \in {"raised", "export", "returned", "written"}

\* The run has ended in an error of the data: an attribution TypeError or a
\* conflict of the registry.
DataError == failure # NoError /\ failure # Some(FindAttributeError)

\* C5: in an archive of messages exchanged with one phone, a received message
\* from that phone to the owner and a sent message from the owner to that phone
\* carry the same conversation key once the run is past _IndexUsers, and when
\* their threads are equal both are in the same convos[key][thread] list once it
\* is past _IndexMessages, unless the data raised an error.
C5_InboundOutboundOneConversation ==
  \A i, j \in DOMAIN smss :
    (OneContact /\ InboundOutbound(i, j) /\ ~DataError) =>
      /\ PastLinking => (smss[i].uuid # None /\ smss[i].uuid = smss[j].uuid)
      /\ (PastBucketing /\ smss[i].thread = smss[j].thread) =>
           (InBucket(i) /\ InBucket(j))

\* An exception has been raised in the run: one of the TypeErrors of GetSender /
\* GetReceiver, the Error of the registry, or a failed Find or Get.
ErrorOccurred == failure # NoError

\* C13: no state has both an error raised during indexing and the chat logs
\* returned by Process or written by main; the run is at the raise and the
\* message under the cursor was not bucketed.
C13_ErrorAbortsTheRun ==
  ErrorOccurred =>
    /\ pc = "raised"
    /\ pc \notin {"export", "returned", "written"}
    /\ convos = EmptyMap

\* C13 witness: the second message of the archive has a type below 1; the first
\* was fed, the run has ended in the TypeError and nothing was bucketed.
C13_Witness ==
  /\ pc = "raised"
  /\ failure = Some(UnsupportedType)
  /\ cursor = 2
  /\ Len(users) + Len(partial_users) > 0
  /\ convos = EmptyMap

\* The identity pass of _IndexUsers has completed without error.
IdentityPassDone == pc \in {"link", "bucket", "export", "returned", "written"}

\* C14: once every message's sender and receiver were fed to Update and
\* ProcessPartialUsers has run without error, Find succeeds for the sender and
\* the receiver of every message: no pass of the linking loop raises.
C14_FedFragmentsAreFound ==
  [][ pc = "link" => pc' # "raised" ]_vars

\* C15: on a message whose type is below 1 GetSender and GetReceiver raise the
\* unsupported-type error and return no identity; on type 1 and on every type
\* above 1 neither raises that error.
C15_TypeBelowOneIsUnsupported ==
  attributed # NoCall =>
    /\ mail.type < 1 =>
         (attributed.out.err = Some(UnsupportedType) /\ attributed.out.user = None)
    /\ mail.type >= 1 => attributed.out.err # Some(UnsupportedType)

\* C15 witness: GetReceiver has raised on a message of type 0 whose address
\* holds a phone.
C15_Witness ==
  /\ attributed # NoCall
  /\ attributed.side = "receiver"
  /\ mail.type = 0
  /\ mail.address = LineToken(P, None, None)
  /\ attributed.out.err = Some(UnsupportedType)
  /\ attributed.out.user = None

\* ---------------------------------------------------------------- SmsMessage.__init__: properties

\* C17: construction from a message that lacks one of the required headers (to,
\* from, subject, id, address, type, date, thread) raises InitError carrying the
\* message, and gives no SmsMessage.
C17_MissingHeaderRaisesInitError ==
  (loaded # NoCall /\ \E name \in Headers : Header(raw_email, name) = None) =>
    (loaded.err = Some(InitError(raw_email)) /\ loaded.message = None)

\* The positions of the call log that hold one of the calls named.
CallsOf(names) == {i \in DOMAIN oplog : oplog[i] \in names}

\* C20: in every run every Users.Update comes before ProcessPartialUsers,
\* ProcessPartialUsers runs at most once and exactly once in a run that gets past
\* the identity pass, and every Find, Interactions.Update and Interactions.Get
\* comes after it.
C20_PhasesAreOrdered ==
  /\ Cardinality(CallsOf({"ProcessPartialUsers"})) <= 1
  /\ IdentityPassDone => Cardinality(CallsOf({"ProcessPartialUsers"})) = 1
  /\ \A p \in CallsOf({"ProcessPartialUsers"}) :
       /\ \A u \in CallsOf({"Update"}) : u < p
       /\ \A f \in CallsOf({"Find", "InteractionsUpdate", "InteractionsGet"}) : p < f
  /\ CallsOf({"Find", "InteractionsUpdate", "InteractionsGet"}) # {} =>
       CallsOf({"ProcessPartialUsers"}) # {}

\* C20 witness: a run over two messages has made four Updates and then
\* ProcessPartialUsers, and has ended at the first lookup of Find.
C20_Witness ==
  /\ pc = "raised"
  /\ failure = Some(FindAttributeError)
  /\ Len(smss) = 2
  /\ Cardinality(CallsOf({"Update"})) = 4
  /\ oplog = <<"Update", "Update", "Update", "Update", "ProcessPartialUsers">>

====
